---- MODULE Spec2Model ----
(***************************************************************************)
(* A model of the Ubuntu package dependency tool:                          *)
(*   package_manager.py    UbuntuPackageManager (lazy index, lookups)      *)
(*   dependency_graph.py   DependencyGraph (depth-limited DFS, statistics) *)
(*                                                                         *)
(* Strings are sequences of one-character strings, so that lower(),        *)
(* substring tests, split() and join() are computed, not assumed.          *)
(* A Python dict is a TLA+ function whose DOMAIN is the set of keys that   *)
(* are present; where the code relies on insertion order the keys are      *)
(* kept in a sequence next to it.                                          *)
(***************************************************************************)
EXTENDS Integers, Sequences, FiniteSets, TLC

(***************************************************************************)
(* Strings                                                                 *)
(***************************************************************************)
EmptyStr == << >>

\* str.lower() on one character of the alphabet used here
LowerChar(c) ==
    CASE c = "A" -> "a"
      [] c = "B" -> "b"
      [] c = "C" -> "c"
      [] OTHER -> c

\* str.lower()
Lower(s) == [i \in 1..Len(s) |-> LowerChar(s[i])]

\* Python's `sub in s` on strings
Contains(sub, s) ==
    \E i \in 0..(Len(s) - Len(sub)) : SubSeq(s, i + 1, i + Len(sub)) = sub

\* Python's `x in list`
InList(x, list) == \E i \in 1..Len(list) : list[i] = x

\* list.index(x): the first position of x (x is in the list)
IndexOf(x, list) == CHOOSE i \in 1..Len(list) :
                        list[i] = x /\ \A j \in 1..(i - 1) : list[j] # x

IsSpace(c) == c \in {" ", "\t", "\n"}

\* str.strip()
RECURSIVE LStrip(_)
LStrip(s) == IF s # << >> /\ IsSpace(Head(s)) THEN LStrip(Tail(s)) ELSE s

RECURSIVE RStrip(_)
RStrip(s) == IF s # << >> /\ IsSpace(s[Len(s)])
             THEN RStrip(SubSeq(s, 1, Len(s) - 1)) ELSE s

Strip(s) == RStrip(LStrip(s))

\* str.split(c) for a one-character separator: always at least one piece
RECURSIVE SplitFrom(_, _, _)
SplitFrom(s, c, piece) ==
    IF s = << >> THEN << piece >>
    ELSE IF Head(s) = c THEN << piece >> \o SplitFrom(Tail(s), c, << >>)
    ELSE SplitFrom(Tail(s), c, Append(piece, Head(s)))

Split(s, c) == SplitFrom(s, c, << >>)

\* sep.join(parts)
RECURSIVE Join(_, _)
Join(sep, parts) ==
    IF parts = << >> THEN << >>
    ELSE IF Len(parts) = 1 THEN parts[1]
    ELSE parts[1] \o sep \o Join(sep, Tail(parts))

(***************************************************************************)
(* UbuntuPackageManager._parse_dependencies                                *)
(***************************************************************************)
\* (variant: the name is cut at the first space only)
CleanDep_KeepParen(first_alternative) ==
    Strip(Split(first_alternative, " ")[1])

\* first_alternative.split(' ')[0].split('(')[0].strip()
CleanDep(first_alternative) ==
    Strip(Split(Split(first_alternative, " ")[1], "(")[1])

RECURSIVE ParseGroups(_, _)
ParseGroups(groups, dependencies) ==
    IF groups = << >> THEN dependencies
    ELSE LET dep_group == Strip(Head(groups))
             first_alternative == Strip(Split(dep_group, "|")[1])
             clean_dep == CleanDep(first_alternative)
         IN  IF dep_group = << >> THEN ParseGroups(Tail(groups), dependencies)
             ELSE IF clean_dep # << >> /\ ~InList(clean_dep, dependencies)
                  THEN ParseGroups(Tail(groups), Append(dependencies, clean_dep))
                  ELSE ParseGroups(Tail(groups), dependencies)

_parse_dependencies(deps_string) ==
    IF deps_string = << >> THEN << >>
    ELSE ParseGroups(Split(deps_string, ","), << >>)

(***************************************************************************)
(* UbuntuPackageManager._parse_packages_file                               *)
(* A content is the sequence of its lines (content.split('\n')).  A line   *)
(* is << >> (the empty line), <<key, value>> (a line holding ': ', split   *)
(* at its first ': ') or <<text>> (a line without ': ', which is skipped). *)
(***************************************************************************)
\* dict.get(key, '')
Get(d, key) == IF key \in DOMAIN d THEN d[key] ELSE EmptyStr

\* d[key] = value on a dict
Put(d, key, value) == (key :> value) @@ d

EmptyDict == << >>

\* An insertion-ordered dict: keys in insertion order, rec the mapping
EmptyCache == [keys |-> << >>, rec |-> EmptyDict]

\* packages[package_name] = record: a key already present keeps its place
CachePut(packages, name, record) ==
    [keys |-> IF InList(name, packages.keys) THEN packages.keys
              ELSE Append(packages.keys, name),
     rec  |-> Put(packages.rec, name, record)]

PackageRecord(current_package) ==
    [name         |-> current_package["Package"],
     version      |-> Get(current_package, "Version"),
     description  |-> Get(current_package, "Description"),
     depends      |-> _parse_dependencies(Get(current_package, "Depends")),
     pre_depends  |-> _parse_dependencies(Get(current_package, "Pre-Depends")),
     architecture |-> Get(current_package, "Architecture")]

RECURSIVE ParseLines(_, _, _)
ParseLines(lines, packages, current_package) ==
    IF lines = << >> THEN packages
    ELSE LET line == Head(lines) IN
         IF line = << >>
         THEN IF current_package # EmptyDict /\ "Package" \in DOMAIN current_package
              THEN ParseLines(Tail(lines),
                              CachePut(packages, current_package["Package"],
                                       PackageRecord(current_package)),
                              EmptyDict)
              ELSE ParseLines(Tail(lines), packages, EmptyDict)
         ELSE IF Len(line) = 2
              THEN LET key == line[1]
                       value == line[2]
                   IN  IF key \in DOMAIN current_package /\ key = "Description"
                       THEN ParseLines(Tail(lines), packages,
                                Put(current_package, key,
                                    current_package[key] \o <<"\n">> \o value))
                       ELSE ParseLines(Tail(lines), packages,
                                Put(current_package, key, value))
              ELSE ParseLines(Tail(lines), packages, current_package)

_parse_packages_file(content) == ParseLines(content, EmptyCache, EmptyDict)

(***************************************************************************)
(* UbuntuPackageManager._download_packages_file                            *)
(* What one mirror does when asked is one of Outcomes; `resp` gives the    *)
(* outcome of every mirror for one call, `served` the content each mirror  *)
(* holds.                                                                  *)
(***************************************************************************)
packages_urls == <<"archive/focal/main", "archive/focal/universe",
                   "security/focal-security/main", "ports/focal/main">>

Mirrors == 1..Len(packages_urls)

\* requests.get raises | status_code # 200 | gzip/utf-8 decoding raises | success
Outcomes == {"network_error", "http_error", "bad_gzip", "ok"}

DownloadFailed == [msg |-> "download_failed"]

\* (variant: status 200 is enough, the body is not decoded)
Succeeded_StatusOnly(outcome) == outcome \in {"ok", "bad_gzip"}

\* `response.status_code == 200` and gzip.open(...).read() returns
Succeeded(outcome) == outcome = "ok"

\* requests.get(packages_urls[i]): the mirror asked and what came of it
Attempt(i, resp) == [mirror |-> i, outcome |-> resp[i]]

\* One pass of `for packages_url in packages_urls`, from position i on;
\* `contacted` lists the requests made so far
RECURSIVE TryMirrors(_, _, _, _)
TryMirrors(i, resp, served, contacted) ==
    IF i > Len(packages_urls)
    THEN [raised |-> TRUE, error |-> DownloadFailed, content |-> << >>,
          contacted |-> contacted]
    ELSE IF Succeeded(resp[i])
         THEN [raised |-> FALSE, error |-> << >>, content |-> served[i],
               contacted |-> Append(contacted, Attempt(i, resp))]
    ELSE \* except Exception: continue  /  HTTP status printed, next url
         TryMirrors(i + 1, resp, served, Append(contacted, Attempt(i, resp)))

_download_packages_file(resp, served) == TryMirrors(1, resp, served, << >>)

(***************************************************************************)
(* UbuntuPackageManager._find_package, get_package_info,                   *)
(* get_package_dependencies                                                *)
(***************************************************************************)
MaxSimilar == 5
MaxExamples == 10

\* (variant: the slice keeps the whole list)
Take_NoLimit(list, n) == list

\* list[:n]
Take(list, n) == SubSeq(list, 1, IF Len(list) < n THEN Len(list) ELSE n)

\* [pkg for pkg in keys if cond(pkg)]
RECURSIVE SimilarTo(_, _)
SimilarTo(package_name, keys) ==
    IF keys = << >> THEN << >>
    ELSE IF Contains(Lower(package_name), Lower(Head(keys)))
         THEN << Head(keys) >> \o SimilarTo(package_name, Tail(keys))
         ELSE SimilarTo(package_name, Tail(keys))

\* `not self.package_cache`
CacheIsEmpty(cache) == cache.keys = << >>

_find_package(cache, package_name) ==
    IF package_name \in DOMAIN cache.rec
    THEN [raised |-> FALSE, value |-> cache.rec[package_name], error |-> << >>]
    ELSE LET similar == SimilarTo(package_name, cache.keys) IN
         IF similar # << >>
         THEN [raised |-> TRUE, value |-> << >>,
               error |-> [msg |-> "not_found_similar", package |-> package_name,
                          listed |-> Take(similar, MaxSimilar)]]
         ELSE [raised |-> TRUE, value |-> << >>,
               error |-> [msg |-> "not_found_examples", package |-> package_name,
                          listed |-> Take(cache.keys, MaxExamples)]]

\* `if not self.package_cache: content = download(); cache = parse(content)`
\* Yields the cache afterwards, the mirrors contacted and whether a parse ran.
LoadIfEmpty(cache, resp, served) ==
    IF CacheIsEmpty(cache)
    THEN LET d == _download_packages_file(resp, served) IN
         IF d.raised
         THEN [raised |-> TRUE, error |-> d.error, cache |-> cache,
               contacted |-> d.contacted, downloads |-> 1, parses |-> 0]
         ELSE [raised |-> FALSE, error |-> << >>,
               cache |-> _parse_packages_file(d.content),
               contacted |-> d.contacted, downloads |-> 1, parses |-> 1]
    ELSE [raised |-> FALSE, error |-> << >>, cache |-> cache,
          contacted |-> << >>, downloads |-> 0, parses |-> 0]

get_package_info(cache, package_name, version, resp, served) ==
    LET ld == LoadIfEmpty(cache, resp, served) IN
    IF ld.raised
    THEN [raised |-> TRUE, error |-> ld.error, value |-> << >>, load |-> ld]
    ELSE LET f == _find_package(ld.cache, package_name) IN
         [raised |-> f.raised, error |-> f.error, value |-> f.value, load |-> ld]

get_package_dependencies(cache, package_name, version, resp, served) ==
    LET ld == LoadIfEmpty(cache, resp, served) IN
    IF ld.raised
    THEN [raised |-> TRUE, error |-> ld.error, value |-> << >>, load |-> ld]
    ELSE LET f == _find_package(ld.cache, package_name) IN
         IF f.raised
         THEN [raised |-> TRUE, error |-> f.error, value |-> << >>, load |-> ld]
         ELSE [raised |-> FALSE, error |-> << >>,
               value |-> f.value.depends \o f.value.pre_depends, load |-> ld]

(***************************************************************************)
(* DependencyGraph._dfs_build_graph                                        *)
(* The code fills the dict graph_node in place; here the call yields the   *)
(* dict it leaves behind.  A node's 'dependencies' dict is insertion       *)
(* ordered: [keys, rec].                                                   *)
(***************************************************************************)
NoChildren == [keys |-> << >>, rec |-> EmptyDict]

\* (variant: the limit taken one level too deep)
DepthExceeded_OneTooDeep(current_depth, max_depth) == current_depth > max_depth + 1

\* `if current_depth > max_depth: return`
DepthExceeded(current_depth, max_depth) == current_depth > max_depth

\* (variant: only the parent is compared)
OnPath_ParentOnly(package_name, path) ==
    path # << >> /\ path[Len(path)] = package_name

\* `if package_name in path`
\* (variant: only the root of the path is looked at)
OnPath_RootOnly(package_name, path) ==
    path # << >> /\ path[1] = package_name

OnPath(package_name, path) == InList(package_name, path)

Arrow == <<" ", "-", ">", " ">>

\* (variant: the closing name is not appended)
CycleStr_NotClosed(package_name, path) ==
    Join(Arrow, SubSeq(path, IndexOf(package_name, path), Len(path)))

\* cycle = path[path.index(package_name):] + [package_name]; " -> ".join(cycle)
CycleStr(package_name, path) ==
    Join(Arrow, Append(SubSeq(path, IndexOf(package_name, path), Len(path)),
                       package_name))

\* (variant: the comparison without .lower())
IsFiltered_CaseSensitive(dep, filter_substring) ==
    filter_substring # << >> /\ Contains(filter_substring, dep)

\* `filter_substring and filter_substring.lower() in dep.lower()`
IsFiltered(dep, filter_substring) ==
    filter_substring # << >> /\ Contains(Lower(filter_substring), Lower(dep))

\* The filtering loop: the surviving names and how many were dropped
RECURSIVE FilterDependencies(_, _)
FilterDependencies(dependencies, filter_substring) ==
    IF dependencies = << >> THEN [kept |-> << >>, dropped |-> 0]
    ELSE LET rest == FilterDependencies(Tail(dependencies), filter_substring) IN
         IF IsFiltered(Head(dependencies), filter_substring)
         THEN [kept |-> rest.kept, dropped |-> rest.dropped + 1]
         ELSE [kept |-> << Head(dependencies) >> \o rest.kept,
               dropped |-> rest.dropped]

\* The lines that fill a resolved node before its dependencies are walked
ResolvedNode(package_name, package_info, current_depth, dropped) ==
    LET node == [package |-> package_name, version |-> package_info.version,
                 depth |-> current_depth, dependencies |-> NoChildren]
    IN  IF dropped > 0 THEN Put(node, "filtered_count", dropped) ELSE node

\* `if dep not in graph_node['dependencies']`
AlreadyChild(dep, children) == InList(dep, children.keys)

RECURSIVE _dfs_build_graph(_, _, _, _, _, _, _)
RECURSIVE ExpandDependencies(_, _, _, _, _, _, _)

\* (variant: a dependency that ends in an error ends the loop)
RECURSIVE ExpandDependencies_StopAtError(_, _, _, _, _, _, _)
ExpandDependencies_StopAtError(cache, deps, children, max_depth, current_depth, filter_substring, current_path) ==
    IF deps = << >> THEN children
    ELSE LET dep == Head(deps)
             child == _dfs_build_graph(cache, dep, EmptyStr, max_depth,
                                       current_depth + 1, filter_substring,
                                       current_path)
             grown == [keys |-> Append(children.keys, dep),
                       rec  |-> Put(children.rec, dep, child)]
         IN  IF AlreadyChild(dep, children)
             THEN ExpandDependencies_StopAtError(cache, Tail(deps), children,
                      max_depth, current_depth, filter_substring, current_path)
             ELSE IF "error" \in DOMAIN child THEN grown
             ELSE ExpandDependencies_StopAtError(cache, Tail(deps), grown,
                      max_depth, current_depth, filter_substring, current_path)

\* `for dep in filtered_dependencies`: the children dict after the loop
ExpandDependencies(cache, deps, children, max_depth, current_depth, filter_substring, current_path) ==
    IF deps = << >> THEN children
    ELSE LET dep == Head(deps) IN
         IF AlreadyChild(dep, children)
         THEN ExpandDependencies(cache, Tail(deps), children, max_depth,
                                 current_depth, filter_substring, current_path)
         ELSE ExpandDependencies(cache, Tail(deps),
                  [keys |-> Append(children.keys, dep),
                   rec  |-> Put(children.rec, dep,
                                _dfs_build_graph(cache, dep, EmptyStr, max_depth,
                                                 current_depth + 1,
                                                 filter_substring, current_path))],
                  max_depth, current_depth, filter_substring, current_path)

\* `cache` is the index the lookups of this call see.  Only the root call can
\* meet an empty package_cache (a loaded cache that holds the root is not
\* empty, and a failed or empty load ends the root call), so the load is
\* part of build_dependency_graph below.
_dfs_build_graph(cache, package_name, version, max_depth, current_depth, filter_substring, path) ==
    IF DepthExceeded(current_depth, max_depth) THEN EmptyDict
    ELSE IF OnPath(package_name, path)
    THEN ("cycle" :> CycleStr(package_name, path))
    ELSE LET current_path == Append(path, package_name)
             package_info == _find_package(cache, package_name)
         IN  IF package_info.raised
             THEN \* except Exception as e: graph_node['error'] = str(e)
                  ("error" :> package_info.error)
             ELSE LET dependencies == package_info.value.depends
                                      \o package_info.value.pre_depends
                      f == FilterDependencies(dependencies, filter_substring)
                      node == ResolvedNode(package_name, package_info.value,
                                           current_depth, f.dropped)
                  IN  IF f.kept = << >> THEN node
                      ELSE Put(node, "dependencies",
                               ExpandDependencies(cache, f.kept, NoChildren,
                                   max_depth, current_depth, filter_substring,
                                   current_path))

(***************************************************************************)
(* DependencyGraph.build_dependency_graph                                  *)
(***************************************************************************)
NoLoad(cache) == [raised |-> FALSE, error |-> << >>, cache |-> cache,
                  contacted |-> << >>, downloads |-> 0, parses |-> 0]

build_dependency_graph(cache, package_name, version, max_depth, filter_substring, resp, served) ==
    LET ld == IF DepthExceeded(0, max_depth) THEN NoLoad(cache)
              ELSE LoadIfEmpty(cache, resp, served)
        root_node ==
            IF ld.raised
            THEN \* the download failure is caught by `except Exception` too
                 ("error" :> ld.error)
            ELSE _dfs_build_graph(ld.cache, package_name, version, max_depth,
                                  0, filter_substring, << >>)
    IN  [graph |-> [root |-> package_name, dependencies |-> root_node,
                    cycles |-> << >>, filtered_count |-> 0],
         raised |-> FALSE,
         load |-> ld]

(***************************************************************************)
(* DependencyGraph.get_statistics and _get_max_depth                       *)
(***************************************************************************)
\* node['dependencies'].values()
Values(children) == [i \in 1..Len(children.keys) |-> children.rec[children.keys[i]]]

\* (variant: both counters test the 'error' key)
OwnCounts_ErrorKeyTwice(node) ==
    << 1, IF "error" \in DOMAIN node THEN 1 ELSE 0,
          IF "error" \in DOMAIN node THEN 1 ELSE 0 >>

\* total = 1; errors = 1 if 'error' in node else 0; cycles likewise
OwnCounts(node) == << 1, IF "error" \in DOMAIN node THEN 1 ELSE 0,
                         IF "cycle" \in DOMAIN node THEN 1 ELSE 0 >>

RECURSIVE count_nodes(_)
RECURSIVE CountDeps(_, _)

\* The loop of count_nodes; unpacking a 2-tuple into three names raises
\* ValueError
CountDeps(deps, acc) ==
    IF deps = << >> THEN [raised |-> FALSE, value |-> acc]
    ELSE LET r == count_nodes(Head(deps)) IN
         IF r.raised \/ Len(r.value) # 3
         THEN [raised |-> TRUE, value |-> << >>]
         ELSE CountDeps(Tail(deps), << acc[1] + r.value[1], acc[2] + r.value[2],
                                       acc[3] + r.value[3] >>)

count_nodes(node) ==
    IF node = EmptyDict THEN [raised |-> FALSE, value |-> <<0, 0>>]
    ELSE LET own == OwnCounts(node)
         IN  IF "dependencies" \in DOMAIN node
             THEN CountDeps(Values(node["dependencies"]), own)
             ELSE [raised |-> FALSE, value |-> own]

Max(x, y) == IF x > y THEN x ELSE y

RECURSIVE find_depth(_, _)
RECURSIVE FindDepthDeps(_, _, _)

FindDepthDeps(deps, current_depth, max_depth) ==
    IF deps = << >> THEN max_depth
    ELSE FindDepthDeps(Tail(deps), current_depth,
                       Max(max_depth, find_depth(Head(deps), current_depth + 1)))

find_depth(node, current_depth) ==
    IF "dependencies" \in DOMAIN node
    THEN FindDepthDeps(Values(node["dependencies"]), current_depth, current_depth)
    ELSE current_depth

_get_max_depth(graph) == find_depth(graph.dependencies, 0)

\* (variant: filtered_count is read from the root node, not from the graph)
get_statistics_RootNodeCount(graph) ==
    LET r == count_nodes(graph.dependencies) IN
    IF r.raised \/ Len(r.value) # 3
    THEN [raised |-> TRUE, error |-> "ValueError", value |-> << >>]
    ELSE [raised |-> FALSE, error |-> "",
          value |-> [total_packages    |-> r.value[1],
                     root_package      |-> graph.root,
                     max_depth_reached |-> _get_max_depth(graph),
                     errors_count      |-> r.value[2],
                     cycles_count      |-> r.value[3],
                     filtered_count    |->
                         IF "filtered_count" \in DOMAIN graph.dependencies
                         THEN graph.dependencies["filtered_count"]
                         ELSE graph.filtered_count]]

get_statistics(graph) ==
    LET r == count_nodes(graph.dependencies) IN
    IF r.raised \/ Len(r.value) # 3
    THEN [raised |-> TRUE, error |-> "ValueError", value |-> << >>]
    ELSE [raised |-> FALSE, error |-> "",
          value |-> [total_packages    |-> r.value[1],
                     root_package      |-> graph.root,
                     max_depth_reached |-> _get_max_depth(graph),
                     errors_count      |-> r.value[2],
                     cycles_count      |-> r.value[3],
                     filtered_count    |-> graph.filtered_count]]

(***************************************************************************)
(* Inputs: package names, Packages files, mirrors' behaviour               *)
(***************************************************************************)
a  == <<"a">>
b  == <<"b">>
c  == <<"c">>
ab == <<"a", "b">>
Bc == <<"B", "c">>

PackageNames == {a, b, c}
Versions == {<<"1", ".", "0">>}
Filters == {EmptyStr, <<"B">>}

MaxDepthArg == 2
MaxDepths == 0..MaxDepthArg

\* One stanza of a Packages file, closed by its empty line
Stanza(name, version, depends) ==
    << <<"Package", name>>, <<"Version", version>>, <<"Depends", depends>>,
       << >> >>

\* a -> b ; b -> a, c ; c's stanza lacks the closing empty line
ContentCycle ==
    Stanza(a, <<"1">>, <<"b">>) \o Stanza(b, <<"2">>, <<"a", ",", "c">>)
    \o << <<"Package", c>>, <<"Version", <<"3">> >> >>

\* a -> a, ab, b ; b -> ab, a ; ab a leaf
ContentFilter ==
    Stanza(a, <<"1">>, <<"a", ",", " ", "a", "b", ",", " ", "b">>)
    \o Stanza(ab, <<"1">>, EmptyStr)
    \o Stanza(b, <<"1">>, <<"a", "b", ",", " ", "a">>)

\* a -> c (absent), b ; b -> c (absent), ab ; ab -> a
ContentMissing ==
    Stanza(a, <<"1">>, <<"c", ",", "b">>)
    \o Stanza(b, <<"1">>, <<"c", ",", " ", "a", "b">>)
    \o Stanza(ab, <<"1">>, <<"a">>)

\* versions, alternatives, Pre-Depends, a description over two lines:
\* a -> b, ab, b, Bc ; b -> Bc ; ab -> b ; Bc a leaf
ContentRich ==
    << <<"Package", a>>, <<"Version", <<"1">> >>,
       <<"Description", <<"d">> >>, <<"Description", <<"e">> >>,
       <<" continuation">>,
       <<"Depends", <<"b", " ", "(", ">", "=", " ", "2", ")", ",", " ",
                      "a", "b", " ", "|", " ", "c">> >>,
       <<"Pre-Depends", <<"b", ",", "B", "c">> >>,
       << >> >>
    \o Stanza(b, <<"1">>, <<"B", "c">>)
    \o Stanza(ab, <<"1">>, <<"b">>)
    \o Stanza(Bc, <<"1">>, EmptyStr)

\* a twice (the later stanza wins), b, c
ContentTwice ==
    Stanza(a, <<"1">>, <<"b">>) \o Stanza(b, <<"1">>, <<"c">>)
    \o Stanza(a, <<"2">>, <<"c">>) \o Stanza(c, <<"1">>, <<"b">>)

\* no stanza names a package
ContentNoPackage == << <<"Version", <<"1">> >>, << >> >>

Contents == << ContentCycle, ContentFilter, ContentMissing, ContentRich,
               ContentTwice, ContentNoPackage >>

\* Mirror i of repository k holds Contents[k + i - 1], cyclically
Repo(k) == [i \in Mirrors |-> Contents[((k + i - 2) % Len(Contents)) + 1]]

Repos == {Repo(1), Repo(4)}

\* The way each mirror fails when it does
FailureAt(i) ==
    CASE i = 1 -> "network_error"
      [] i = 2 -> "http_error"
      [] i = 3 -> "bad_gzip"
      [] OTHER -> "http_error"

\* One response for every run of the download that can be told apart: the
\* first FirstUp - 1 mirrors fail, the others are up (none is, for
\* FirstUp = Len(packages_urls) + 1)
Responses == {[i \in Mirrors |-> IF i < FirstUp THEN FailureAt(i) ELSE "ok"] :
                 FirstUp \in 1..(Len(packages_urls) + 1)}

\* The mirrors are asked only by a call that finds package_cache empty
ResponsesFor(cache) ==
    IF CacheIsEmpty(cache) THEN Responses ELSE {[i \in Mirrors |-> "ok"]}

\* What a call reports of its load: everything but the cache itself
LoadReport(ld) == [raised |-> ld.raised, error |-> ld.error,
                   contacted |-> ld.contacted, downloads |-> ld.downloads,
                   parses |-> ld.parses]

(***************************************************************************)
(* State                                                                   *)
(***************************************************************************)
VARIABLES
    served,         \* what each mirror holds (never changes)
    package_cache,  \* UbuntuPackageManager.package_cache
    populated,      \* a download has succeeded and its content was parsed
    ret             \* the last call: its arguments and what it gave back

vars == << served, package_cache, populated, ret >>

Init ==
    /\ served \in Repos
    /\ package_cache = EmptyCache
    /\ populated = FALSE
    /\ ret = [op |-> "__init__"]

GetPackageInfo ==
    \E package_name \in PackageNames, version \in Versions, resp \in ResponsesFor(package_cache) :
        LET r == get_package_info(package_cache, package_name, version,
                                  resp, served)
        IN  /\ package_cache' = r.load.cache
            /\ populated' = (populated \/ r.load.parses > 0)
            /\ ret' = [op |-> "get_package_info", package_name |-> package_name,
                       raised |-> r.raised, error |-> r.error,
                       value |-> r.value, load |-> LoadReport(r.load)]
            /\ UNCHANGED served

GetPackageDependencies ==
    \E package_name \in PackageNames, version \in Versions, resp \in ResponsesFor(package_cache) :
        LET r == get_package_dependencies(package_cache, package_name, version,
                                          resp, served)
        IN  /\ package_cache' = r.load.cache
            /\ populated' = (populated \/ r.load.parses > 0)
            /\ ret' = [op |-> "get_package_dependencies",
                       package_name |-> package_name,
                       raised |-> r.raised, error |-> r.error,
                       value |-> r.value, load |-> LoadReport(r.load)]
            /\ UNCHANGED served

\* Every call answers from package_cache alone, and ret holds the last call
\* only: a build right after a build (or after its statistics) reaches no
\* state that the same build after a lookup does not reach, so it is left out.
BuildDependencyGraph ==
    /\ ret.op \in {"__init__", "get_package_info", "get_package_dependencies"}
    /\ \E package_name \in PackageNames, version \in Versions,
       max_depth \in MaxDepths, filter_substring \in Filters,
       resp \in ResponsesFor(package_cache) :
        LET r == build_dependency_graph(package_cache, package_name, version,
                                        max_depth, filter_substring, resp, served)
        IN  /\ package_cache' = r.load.cache
            /\ populated' = (populated \/ r.load.parses > 0)
            /\ ret' = [op |-> "build_dependency_graph",
                       package_name |-> package_name, max_depth |-> max_depth,
                       filter_substring |-> filter_substring,
                       raised |-> r.raised, graph |-> r.graph,
                       load |-> LoadReport(r.load)]
            /\ UNCHANGED served

\* run_stage_3: the statistics of the graph just built
GetStatistics ==
    /\ ret.op = "build_dependency_graph"
    /\ ~ret.raised
    /\ LET r == get_statistics(ret.graph)
       IN  ret' = [op |-> "get_statistics", built |-> ret,
                   raised |-> r.raised, error |-> r.error, value |-> r.value]
    /\ UNCHANGED << served, package_cache, populated >>

GetMaxDepth ==
    /\ ret.op = "build_dependency_graph"
    /\ ~ret.raised
    /\ ret' = [op |-> "_get_max_depth", built |-> ret,
               raised |-> FALSE, value |-> _get_max_depth(ret.graph)]
    /\ UNCHANGED << served, package_cache, populated >>

Next ==
    \/ GetPackageInfo
    \/ GetPackageDependencies
    \/ BuildDependencyGraph
    \/ GetStatistics
    \/ GetMaxDepth

Spec == Init /\ [][Next]_vars

(***************************************************************************)
(* Reading a graph: every dict of the tree with the name it is stored      *)
(* under, the names of its ancestors (root first) and its parent dict      *)
(***************************************************************************)
RECURSIVE NodesUnder(_, _, _, _)
NodesUnder(node, name, ancestors, parent) ==
    {[name |-> name, ancestors |-> ancestors, node |-> node, parent |-> parent]}
    \cup
    (IF "dependencies" \in DOMAIN node
     THEN UNION {NodesUnder(node["dependencies"].rec[k], k,
                            Append(ancestors, name), node) :
                    k \in DOMAIN node["dependencies"].rec}
     ELSE {})

GraphNodes(graph) == NodesUnder(graph.dependencies, graph.root, << >>, EmptyDict)

Has(node, key) == key \in DOMAIN node

IsBuild == ret.op = "build_dependency_graph"
IsStatistics == ret.op = "get_statistics"
LookupOps == {"get_package_info", "get_package_dependencies"}

\* The depth at which _dfs_build_graph was called for the node
CallDepth(n) == Len(n.ancestors)

Known(name) == name \in DOMAIN package_cache.rec

(***************************************************************************)
(* C1  Depth fields.                                                       *)
(***************************************************************************)
DepthFieldsConsistent(graph, max_depth) ==
    \A n \in GraphNodes(graph) :
        Has(n.node, "depth") =>
            /\ n.node["depth"] <= max_depth
            /\ n.ancestors = << >> => n.node["depth"] = 0
            /\ n.ancestors # << >> =>
                   /\ Has(n.parent, "depth")
                   /\ n.node["depth"] = n.parent["depth"] + 1

\* C1 (as amended): in every graph build_dependency_graph returns for
\* max_depth >= 0, every node that carries a depth has depth <= max_depth, a
\* child that carries a depth has its parent's depth + 1, and the root node
\* carries a depth, which is 0, exactly when the index holds the root package
\* (a root whose lookup failed carries an error and no depth).
C1_DepthWithinLimit ==
    IsBuild =>
        /\ DepthFieldsConsistent(ret.graph, ret.max_depth)
        /\ Has(ret.graph.dependencies, "depth") <=> Known(ret.package_name)
        /\ Known(ret.package_name) => ret.graph.dependencies["depth"] = 0

\* C1 as stated, for the builds whose index was downloaded: ... and the root
\* node has depth 0, for every index and root.
C1_RootAlwaysHasDepthZero ==
    (IsBuild /\ ~ret.load.raised) =>
        /\ DepthFieldsConsistent(ret.graph, ret.max_depth)
        /\ Has(ret.graph.dependencies, "depth")
        /\ ret.graph.dependencies["depth"] = 0

\* C1 witness: a graph built to max_depth = 2 with a node at depth 2 and the
\* placeholders of that node's dependencies below it
C1_Witness ==
    /\ IsBuild
    /\ ret.max_depth = 2
    /\ \E n \in GraphNodes(ret.graph) :
           /\ Has(n.node, "depth") /\ n.node["depth"] = 2
           /\ n.node["dependencies"].keys # << >>

(***************************************************************************)
(* C2  Cycle marks are relative to the path.                               *)
(***************************************************************************)
\* C2 (as amended): a node that lies within the depth limit (at depth <=
\* max_depth) has its cycle field set if and only if its package name occurs
\* among its own ancestors; a node beyond the limit is left unmarked even when
\* its name repeats an ancestor.  A package met on another branch only is not
\* a cycle: within the limit it is resolved again on every branch.
C2_CycleIffOnOwnPath ==
    IsBuild =>
        \A n \in GraphNodes(ret.graph) :
            /\ Has(n.node, "cycle") <=>
                   (InList(n.name, n.ancestors) /\ CallDepth(n) <= ret.max_depth)
            /\ (/\ ~InList(n.name, n.ancestors)
                /\ CallDepth(n) <= ret.max_depth
                /\ Known(n.name)) => Has(n.node, "package")

\* C2 as stated: for every node of the graph, cycle is set iff the name
\* occurs among the node's ancestors.
C2_CycleIffOnOwnPathAnyDepth ==
    IsBuild =>
        \A n \in GraphNodes(ret.graph) :
            Has(n.node, "cycle") <=> InList(n.name, n.ancestors)

\* C2 witness: one graph with a cycle node and with one package resolved on
\* two different branches
C2_Witness ==
    /\ IsBuild
    /\ \E n \in GraphNodes(ret.graph) : Has(n.node, "cycle")
    /\ \E n1, n2 \in GraphNodes(ret.graph) :
           /\ n1.name = n2.name /\ n1.ancestors # n2.ancestors
           /\ Has(n1.node, "package") /\ Has(n2.node, "package")

(***************************************************************************)
(* C3  Statistics count the nodes of the graph.                            *)
(***************************************************************************)
HasEmptyNode(graph) == \E n \in GraphNodes(graph) : n.node = EmptyDict

CountWith(graph, key) == Cardinality({n \in GraphNodes(graph) : Has(n.node, key)})

C4_DownloadFailureEndsBuild ==
    (IsBuild /\ ret.load.raised) =>
        /\ ret.raised
        /\ ~Has(ret.graph.dependencies, "error")

(***************************************************************************)
(* C5  The index is loaded once.                                           *)
(***************************************************************************)
\* C5: once a download has succeeded and its content has been parsed, no
\* later get_package_info or get_package_dependencies call on the instance
\* downloads or parses again, whatever the parsed index holds.
C5_IndexLoadedOnce ==
    [][(populated /\ ret'.op \in LookupOps) =>
           (ret'.load.downloads = 0 /\ ret'.load.parses = 0)]_vars

(***************************************************************************)
(* C6  The mirrors are tried in order.                                     *)
(***************************************************************************)
Loaded == ret.op \in LookupOps \cup {"build_dependency_graph"}
          /\ ret.load.downloads > 0

\* C6: a download asks the mirrors in list order, one at a time, each at most
\* once; it goes on to the next mirror only after a failure (network error,
\* status other than 200, undecodable body); it stops at the first mirror that
\* succeeds and returns that mirror's content; it raises if and only if all
\* mirrors of the list were asked and failed.
C6_MirrorsTriedInOrder ==
    Loaded =>
        LET t == ret.load.contacted
            k == Len(t)
        IN  /\ k >= 1 /\ k <= Len(packages_urls)
            /\ \A i \in 1..k : t[i].mirror = i
            /\ \A i \in 1..(k - 1) : t[i].outcome # "ok"
            /\ ret.load.raised <=> (k = Len(packages_urls) /\ t[k].outcome # "ok")
            /\ ret.load.raised => ret.load.error = DownloadFailed
            /\ ~ret.load.raised =>
                   /\ t[k].outcome = "ok"
                   /\ package_cache = _parse_packages_file(served[k])

\* C6 witness: two mirrors failed, the third one answered
C6_Witness ==
    /\ Loaded
    /\ ~ret.load.raised
    /\ Len(ret.load.contacted) = 3
    /\ ret.load.contacted[1].outcome = "network_error"
    /\ ret.load.contacted[2].outcome = "http_error"

(***************************************************************************)
(* C7  A package missing from the index.                                   *)
(***************************************************************************)
Range(seq) == {seq[i] : i \in 1..Len(seq)}

\* Every name the index or a caller can mention
MentionedNames(cache) ==
    PackageNames \cup DOMAIN cache.rec \cup
    UNION {Range(cache.rec[n].depends) \cup Range(cache.rec[n].pre_depends) :
              n \in DOMAIN cache.rec}

LeafRecord(name) ==
    [name |-> name, version |-> EmptyStr, description |-> EmptyStr,
     depends |-> << >>, pre_depends |-> << >>, architecture |-> EmptyStr]

RECURSIVE SeqOfSet(_)
SeqOfSet(S) == IF S = {} THEN << >>
               ELSE LET x == CHOOSE x \in S : TRUE
                    IN  << x >> \o SeqOfSet(S \ {x})

\* The index with every missing name added as a package without dependencies
WithMissingAsLeaves(cache) ==
    LET missing == MentionedNames(cache) \ DOMAIN cache.rec IN
    [keys |-> cache.keys \o SeqOfSet(missing),
     rec  |-> [n \in DOMAIN cache.rec \cup missing |->
                  IF n \in DOMAIN cache.rec THEN cache.rec[n] ELSE LeafRecord(n)]]

\* A tree with the resolved nodes of missing names turned into the error
\* nodes their lookup in `cache` gives
RECURSIVE MissingAsErrors(_, _, _)
MissingAsErrors(cache, node, name) ==
    IF Has(node, "package") /\ name \notin DOMAIN cache.rec
    THEN ("error" :> _find_package(cache, name).error)
    ELSE IF Has(node, "dependencies")
    THEN Put(node, "dependencies",
             [keys |-> node["dependencies"].keys,
              rec  |-> [k \in DOMAIN node["dependencies"].rec |->
                           MissingAsErrors(cache, node["dependencies"].rec[k], k)]])
    ELSE node

\* C7: when the lookup of a package fails because the index does not hold it,
\* the node holds the failure message in its error field and nothing else (no
\* children), the build returns a graph, and the rest of the traversal is what
\* it would be had the missing packages been in the index without
\* dependencies: the graph equals the graph built over that richer index with
\* the nodes of the missing packages replaced by their error nodes.
C7_MissingPackageIsLocal ==
    (IsBuild /\ ~ret.load.raised) =>
        /\ ~ret.raised
        /\ \A n \in GraphNodes(ret.graph) :
               (/\ ~Known(n.name)
                /\ CallDepth(n) <= ret.max_depth) =>
                   /\ DOMAIN n.node = {"error"}
                   /\ n.node["error"].msg \in {"not_found_similar",
                                               "not_found_examples"}
                   /\ n.node["error"].package = n.name
        /\ \A n \in GraphNodes(ret.graph) : Has(n.node, "error") => ~Known(n.name)
        /\ ret.graph.dependencies =
               MissingAsErrors(package_cache,
                   _dfs_build_graph(WithMissingAsLeaves(package_cache),
                                    ret.package_name, EmptyStr, ret.max_depth, 0,
                                    ret.filter_substring, << >>),
                   ret.package_name)

\* C7 witness: an error node with a later sibling that was resolved and got
\* children of its own
C7_Witness ==
    /\ IsBuild
    /\ \E n1, n2 \in GraphNodes(ret.graph) :
           /\ n1.ancestors = n2.ancestors /\ n1.ancestors # << >>
           /\ Has(n1.node, "error")
           /\ IndexOf(n1.name, n1.parent["dependencies"].keys)
                  < IndexOf(n2.name, n2.parent["dependencies"].keys)
           /\ Has(n2.node, "package")
           /\ n2.node["dependencies"].keys # << >>

(***************************************************************************)
(* C8  Filtering.                                                          *)
(***************************************************************************)
\* The lowercase form of dep contains the lowercase filter, said letter by
\* letter
LowerContains(dep, filter_substring) ==
    \E i \in 0..(Len(dep) - Len(filter_substring)) :
        \A j \in 1..Len(filter_substring) :
            LowerChar(dep[i + j]) = LowerChar(filter_substring[j])

Dropped(dep, filter_substring) ==
    filter_substring # << >> /\ LowerContains(dep, filter_substring)

\* The names of a list in the order of their first occurrence
RECURSIVE FirstOccurrences(_, _)
FirstOccurrences(list, seen) ==
    IF list = << >> THEN << >>
    ELSE IF Head(list) \in seen THEN FirstOccurrences(Tail(list), seen)
    ELSE << Head(list) >> \o FirstOccurrences(Tail(list), seen \cup {Head(list)})

FilteredCountOf(node) ==
    IF Has(node, "filtered_count") THEN node["filtered_count"] ELSE 0

\* C8: at every resolved node the children are exactly the names of the
\* node's dependency list (depends, then pre_depends) whose lowercase form
\* does not contain the lowercase filter, in the order of their first
\* occurrence in that list; filtered_count (absent when nothing was dropped)
\* is the number of entries of the list that were dropped; an empty filter
\* drops nothing; no name containing the filter is a child anywhere.
C8_FilterKeepsOrderAndCounts ==
    IsBuild =>
        LET filter_substring == ret.filter_substring IN
        \A n \in GraphNodes(ret.graph) :
            /\ Has(n.node, "package") =>
                   LET record == package_cache.rec[n.name]
                       all == record.depends \o record.pre_depends
                       kept == SelectSeq(all,
                                   LAMBDA d : ~Dropped(d, filter_substring))
                   IN  /\ n.node["dependencies"].keys = FirstOccurrences(kept, {})
                       /\ DOMAIN n.node["dependencies"].rec = Range(kept)
                       /\ FilteredCountOf(n.node) = Len(all) - Len(kept)
                       /\ Has(n.node, "filtered_count") => n.node["filtered_count"] > 0
                       /\ filter_substring = << >> =>
                              /\ ~Has(n.node, "filtered_count")
                              /\ Range(all) = DOMAIN n.node["dependencies"].rec
            /\ n.ancestors # << >> => ~Dropped(n.name, filter_substring)

\* C8 witness: filter "B" on the dependencies a, ab, b: a survives, two are
\* dropped
C8_Witness ==
    /\ IsBuild
    /\ ret.filter_substring = <<"B">>
    /\ \E n \in GraphNodes(ret.graph) :
           /\ Has(n.node, "package")
           /\ package_cache.rec[n.name].depends = <<a, ab, b>>
           /\ n.node["filtered_count"] = 2
           /\ n.node["dependencies"].keys = <<a>>

(***************************************************************************)
(* C9  The cycle string.                                                   *)
(***************************************************************************)
\* names joined by " -> ", built from the left
RECURSIVE Rendered(_)
Rendered(names) ==
    IF Len(names) = 1 THEN names[1]
    ELSE Rendered(SubSeq(names, 1, Len(names) - 1))
         \o <<" ", "-", ">", " ">> \o names[Len(names)]

StartsWith(str, prefix) ==
    Len(prefix) <= Len(str) /\ SubSeq(str, 1, Len(prefix)) = prefix

EndsWith(str, suffix) ==
    Len(suffix) <= Len(str)
    /\ SubSeq(str, Len(str) - Len(suffix) + 1, Len(str)) = suffix

\* C9: a node marked as a cycle holds the cycle string and nothing else (it
\* is not expanded); the string is the ancestors from the earlier occurrence
\* of the node's package down to the node's parent, then the package again,
\* joined by " -> ", so it begins and ends with the package name; for
\* a -> b -> a from root a the node a at depth 2 holds "a -> b -> a".
C9_CycleStringClosesPath ==
    IsBuild =>
        /\ \A n \in GraphNodes(ret.graph) :
               Has(n.node, "cycle") =>
                   /\ DOMAIN n.node = {"cycle"}
                   /\ \E k \in 1..Len(n.ancestors) :
                          /\ n.ancestors[k] = n.name
                          /\ n.node["cycle"] =
                                 Rendered(Append(SubSeq(n.ancestors, k,
                                                        Len(n.ancestors)),
                                                 n.name))
                   /\ StartsWith(n.node["cycle"], n.name)
                   /\ EndsWith(n.node["cycle"], n.name)
        /\ (/\ package_cache = _parse_packages_file(ContentCycle)
            /\ ret.package_name = a
            /\ ret.filter_substring = << >>
            /\ ret.max_depth >= 2) =>
               LET node_b == ret.graph.dependencies["dependencies"].rec[b] IN
               /\ node_b["depth"] = 1
               /\ node_b["dependencies"].rec[a] =
                      ("cycle" :> <<"a", " ", "-", ">", " ", "b", " ", "-", ">",
                                    " ", "a">>)

\* C9 witness: the graph of root a over a -> b -> a
C9_Witness ==
    /\ IsBuild
    /\ package_cache = _parse_packages_file(ContentCycle)
    /\ ret.package_name = a
    /\ ret.filter_substring = << >>
    /\ ret.max_depth = 2
    /\ Has(ret.graph.dependencies["dependencies"].rec[b]["dependencies"].rec[a],
           "cycle")

(***************************************************************************)
(* C10  max_depth_reached.                                                 *)
(***************************************************************************)
\* C10: for every graph built with max_depth >= 0, _get_max_depth gives the
\* greatest depth among the nodes the traversal visited, 0 when the root has
\* no children, and so never more than the max_depth given to the build.
C10_MaxDepthReachedWithinLimit ==
    ret.op = "_get_max_depth" =>
        LET visited == {n \in GraphNodes(ret.built.graph) :
                           CallDepth(n) <= ret.built.max_depth}
        IN  /\ \E n \in visited : ret.value = CallDepth(n)
            /\ \A n \in visited : ret.value >= CallDepth(n)
            /\ ret.value <= ret.built.max_depth

(***************************************************************************)
(* _parse_dependencies on its own: every dependency field value up to a    *)
(* length, parsed, then its comma-joined result parsed again               *)
(***************************************************************************)
MaxDepsLen == 4

DepsAlphabet == {"a", "b", ",", " ", "(", "|"}

\* "libc6 (>= 2.7), libssl1.1 | libssl3"
LibExample ==
    << "l", "i", "b", "c", "6", " ", "(", ">", "=", " ", "2", ".", "7", ")", ",", " ", 
       "l", "i", "b", "s", "s", "l", "1", ".", "1", " ", "|", " ", "l", "i", "b", "s", "s", "l", "3" >>

libc6 == << "l", "i", "b", "c", "6" >>
libssl11 == << "l", "i", "b", "s", "s", "l", "1", ".", "1" >>

DepsStrings ==
    UNION {[1..k -> DepsAlphabet] : k \in 0..MaxDepsLen} \cup {LibExample}

InitParse ==
    /\ served \in Repos
    /\ package_cache = EmptyCache
    /\ populated = FALSE
    /\ \E deps_string \in DepsStrings :
           ret = [op |-> "deps_string", deps_string |-> deps_string]

ParseDependencies ==
    /\ ret.op = "deps_string"
    /\ ret' = [op |-> "_parse_dependencies", deps_string |-> ret.deps_string,
               value |-> _parse_dependencies(ret.deps_string)]
    /\ UNCHANGED << served, package_cache, populated >>

\* ', '.join / ','.join of a parsed list, parsed again
ReparseDependencies ==
    /\ ret.op = "_parse_dependencies"
    /\ \E sep \in {<<",">>, <<",", " ">>} :
           ret' = [op |-> "reparse", deps_string |-> ret.deps_string,
                   first |-> ret.value,
                   value |-> _parse_dependencies(Join(sep, ret.value))]
    /\ UNCHANGED << served, package_cache, populated >>

NextParse ==
    \/ ParseDependencies
    \/ ReparseDependencies

SpecParse == InitParse /\ [][NextParse]_vars

(***************************************************************************)
(* C11  The dependency expression parser.                                  *)
(***************************************************************************)
\* The pieces of a string between its commas, by position
CommaPositions(str) == {i \in 1..Len(str) : str[i] = ","}

GroupCount(str) == Cardinality(CommaPositions(str)) + 1

\* The position of the k-th comma (0 for k = 0, Len + 1 after the last)
KthComma(str, k) ==
    IF k = 0 THEN 0
    ELSE IF k > Cardinality(CommaPositions(str)) THEN Len(str) + 1
    ELSE CHOOSE i \in CommaPositions(str) :
             Cardinality({j \in CommaPositions(str) : j <= i}) = k

GroupAt(str, k) == SubSeq(str, KthComma(str, k - 1) + 1, KthComma(str, k) - 1)

\* The bare name of a group: after the leading spaces, the longest run of
\* characters before any space, '(' or '|'
BareName(group) ==
    LET start == IF \E i \in 1..Len(group) : group[i] # " "
                 THEN CHOOSE i \in 1..Len(group) :
                          group[i] # " " /\ \A j \in 1..(i - 1) : group[j] = " "
                 ELSE Len(group) + 1
        stops == {i \in start..Len(group) : group[i] \in {" ", "(", "|"}}
        stop  == IF stops = {} THEN Len(group) + 1
                 ELSE CHOOSE i \in stops : \A j \in stops : i <= j
    IN  SubSeq(group, start, stop - 1)

BareNames(str) ==
    SelectSeq([k \in 1..GroupCount(str) |-> BareName(GroupAt(str, k))],
              LAMBDA name : name # << >>)

\* C11: for every dependency field value _parse_dependencies gives the bare
\* names of the first alternatives of the comma-separated groups (each cut
\* at the first space or '('), in the order of their first appearance, no
\* name twice and none empty; the empty input gives the empty sequence;
\* "libc6 (>= 2.7), libssl1.1 | libssl3" gives ["libc6", "libssl1.1"]; and
\* parsing the comma-joined result again gives the same sequence.
C11_ParseDependencies ==
    /\ ret.op = "_parse_dependencies" =>
          /\ ret.value = FirstOccurrences(BareNames(ret.deps_string), {})
          /\ \A i, j \in 1..Len(ret.value) :
                 /\ ret.value[i] # << >>
                 /\ \A k \in 1..Len(ret.value[i]) :
                        ret.value[i][k] \notin {" ", "(", "|", ","}
                 /\ ret.value[i] = ret.value[j] => i = j
          /\ ret.deps_string = << >> => ret.value = << >>
          /\ ret.deps_string = LibExample => ret.value = << libc6, libssl11 >>
    /\ ret.op = "reparse" => ret.value = ret.first

C11_Witness ==
    /\ ret.op = "reparse"
    /\ ret.deps_string = LibExample
    /\ ret.first = << libc6, libssl11 >>
    /\ ret.value = << libc6, libssl11 >>

(***************************************************************************)
(* _find_package on its own: indexes of up to MaxNames packages, so that   *)
(* more names than a message lists can match, or fail to match, a query    *)
(***************************************************************************)
MaxNames == 12

NameLetters == <<"a", "B", "d", "e">>

\* Sixteen two-letter names, told apart by their number
PoolName(i) ==
    << NameLetters[(i % Len(NameLetters)) + 1],
       NameLetters[((i \div Len(NameLetters)) % Len(NameLetters)) + 1] >>

\* The index parsed from a Packages file of n stanzas (Package and Version
\* lines), the pool's names forwards or backwards: one record put per stanza
RECURSIVE IndexOfNames(_, _)
IndexOfNames(n, backwards) ==
    IF n = 0 THEN EmptyCache
    ELSE LET name == PoolName(IF backwards THEN MaxNames - n ELSE n - 1)
         IN  CachePut(IndexOfNames(n - 1, backwards), name,
                      PackageRecord(("Package" :> name) @@ ("Version" :> <<"1">>)))

FindQueries == {a, b, c, EmptyStr, PoolName(0), <<"d", "e">>}

InitFind ==
    /\ served \in Repos
    /\ \E n \in 0..MaxNames, backwards \in BOOLEAN :
           package_cache = IndexOfNames(n, backwards)
    /\ populated = TRUE
    /\ ret = [op |-> "_parse_packages_file"]

FindPackage ==
    /\ \E package_name \in FindQueries :
           LET f == _find_package(package_cache, package_name)
           IN  ret' = [op |-> "_find_package", package_name |-> package_name,
                       raised |-> f.raised, value |-> f.value,
                       error |-> f.error]
    /\ UNCHANGED << served, package_cache, populated >>

NextFind == FindPackage

SpecFind == InitFind /\ [][NextFind]_vars

(***************************************************************************)
(* C12  Package lookup.                                                    *)
(***************************************************************************)
KnownNames == DOMAIN package_cache.rec

Matching(package_name) ==
    {name \in KnownNames : LowerContains(name, package_name)}

Smaller(x, y) == IF x < y THEN x ELSE y

\* C12: _find_package gives back the record stored under exactly the name
\* asked for, or fails; it never gives the record of another package.  When
\* it fails and some known name contains the query (case-insensitively) the
\* message lists at most 5 names, all of them such names; when no known name
\* does, the message lists at most 10 known names, none the name asked for.
C12_FindPackageExactOrFails ==
    ret.op = "_find_package" =>
        IF ~ret.raised
        THEN /\ ret.package_name \in KnownNames
             /\ ret.value = package_cache.rec[ret.package_name]
             /\ ret.value.name = ret.package_name
        ELSE /\ ret.package_name \notin KnownNames
             /\ ret.error.package = ret.package_name
             /\ IF Matching(ret.package_name) # {}
                THEN /\ ret.error.msg = "not_found_similar"
                     /\ Len(ret.error.listed) =
                            Smaller(5, Cardinality(Matching(ret.package_name)))
                     /\ Range(ret.error.listed) \subseteq Matching(ret.package_name)
                ELSE /\ ret.error.msg = "not_found_examples"
                     /\ Len(ret.error.listed) = Smaller(10, Cardinality(KnownNames))
                     /\ Range(ret.error.listed) \subseteq KnownNames
                     /\ ret.package_name \notin Range(ret.error.listed)

\* A failed lookup with more than 5 matching names, 5 of them listed
C12_Witness ==
    /\ ret.op = "_find_package"
    /\ ret.raised
    /\ ret.package_name = b
    /\ Cardinality(Matching(b)) > 5
    /\ ret.error.msg = "not_found_similar"
    /\ Len(ret.error.listed) = 5

(***************************************************************************)
(* validators.validate_max_depth                                           *)
(***************************************************************************)
IsDigit(ch) == ch \in {"0", "1", "2", "3", "4", "5", "6", "7", "8", "9"}

DigitValue(ch) ==
    CASE ch = "0" -> 0 [] ch = "1" -> 1 [] ch = "2" -> 2 [] ch = "3" -> 3
      [] ch = "4" -> 4 [] ch = "5" -> 5 [] ch = "6" -> 6 [] ch = "7" -> 7
      [] ch = "8" -> 8 [] ch = "9" -> 9

\* The digits of a decimal literal read left to right; an underscore is
\* accepted only between two digits
RECURSIVE ReadDigits(_, _, _)
ReadDigits(str, acc, after_digit) ==
    IF str = << >>
    THEN IF after_digit THEN [raised |-> FALSE, value |-> acc]
         ELSE [raised |-> TRUE, value |-> 0]
    ELSE IF IsDigit(Head(str))
         THEN ReadDigits(Tail(str), 10 * acc + DigitValue(Head(str)), TRUE)
    ELSE IF Head(str) = "_" /\ after_digit
         THEN ReadDigits(Tail(str), acc, FALSE)
    ELSE [raised |-> TRUE, value |-> 0]

\* int(value) of a str: surrounding whitespace, one optional sign, digits
int(value) ==
    LET body   == Strip(value)
        signed == body # << >> /\ Head(body) \in {"+", "-"}
        digits == ReadDigits(IF signed THEN Tail(body) ELSE body, 0, FALSE)
    IN  IF digits.raised THEN [raised |-> TRUE, value |-> 0]
        ELSE [raised |-> FALSE,
              value |-> IF signed /\ Head(body) = "-" THEN 0 - digits.value
                        ELSE digits.value]

ValueError(msg) == [type |-> "ValueError", msg |-> msg]

\* (variant: zero is let through)
NotPositive_ZeroAllowed(depth) == depth < 0

\* `if depth <= 0`
NotPositive(depth) == depth <= 0

\* The ValueError raised for depth <= 0 is raised inside the try block and
\* is caught by its `except ValueError`, which raises the other message
validate_max_depth(value) ==
    IF value = << >>
    THEN [raised |-> TRUE, error |-> ValueError("empty"), value |-> 0]
    ELSE LET depth == int(value) IN
         IF depth.raised \/ NotPositive(depth.value)
         THEN [raised |-> TRUE, error |-> ValueError("not_an_integer"),
               value |-> 0]
         ELSE [raised |-> FALSE, error |-> << >>, value |-> depth.value]

MaxValueLen == 3

ValueAlphabet == {"0", "1", "2", "-", "+", " ", "_", "x"}

\* args.max_depth: the text given to --max-depth
ValueStrings == UNION {[1..k -> ValueAlphabet] : k \in 0..MaxValueLen}

InitValidate ==
    /\ served \in Repos
    /\ package_cache = EmptyCache
    /\ populated = FALSE
    /\ \E value \in ValueStrings : ret = [op |-> "args", max_depth |-> value]

ValidateMaxDepth ==
    /\ ret.op = "args"
    /\ LET r == validate_max_depth(ret.max_depth)
       IN  ret' = [op |-> "validate_max_depth", arg |-> ret.max_depth,
                   raised |-> r.raised, error |-> r.error, value |-> r.value]
    /\ UNCHANGED << served, package_cache, populated >>

NextValidate == ValidateMaxDepth

SpecValidate == InitValidate /\ [][NextValidate]_vars

(***************************************************************************)
(* C13  validate_max_depth.                                                *)
(***************************************************************************)
RECURSIVE Pow10(_)
Pow10(n) == IF n = 0 THEN 1 ELSE 10 * Pow10(n - 1)

\* str[i..j] is an integer literal: an optional sign, then digits, single
\* underscores allowed between digits
LiteralAt(str, i, j) ==
    LET k == IF str[i] \in {"+", "-"} THEN i + 1 ELSE i
    IN  /\ k <= j
        /\ IsDigit(str[k])
        /\ IsDigit(str[j])
        /\ \A m \in k..j : IsDigit(str[m]) \/ (str[m] = "_" /\ str[m - 1] # "_")

\* The number the literal str[i..j] denotes: every digit weighs ten to the
\* number of digits on its right
NumberAt(str, i, j) ==
    LET places == {m \in i..j : IsDigit(str[m])}
        weight(m) == Pow10(Cardinality({q \in places : q > m}))
        RECURSIVE Sum(_)
        Sum(S) == IF S = {} THEN 0
                  ELSE LET m == CHOOSE q \in S : TRUE
                       IN  DigitValue(str[m]) * weight(m) + Sum(S \ {m})
    IN  IF str[i] = "-" THEN 0 - Sum(places) ELSE Sum(places)

\* The integers str denotes: a literal with nothing but spaces around it
Denoted(str) ==
    {NumberAt(str, lit[1], lit[2]) :
        lit \in {ij \in (1..Len(str)) \X (1..Len(str)) :
                    /\ ij[1] <= ij[2]
                    /\ \A m \in (1..(ij[1] - 1)) \cup ((ij[2] + 1)..Len(str)) :
                           str[m] = " "
                    /\ LiteralAt(str, ij[1], ij[2])}}

\* C13: validate_max_depth gives n for every text that denotes an integer
\* n > 0 and raises ValueError for every other text (the empty text, text
\* that is no number, zero, negative integers); it never gives a value <= 0.
C13_MaxDepthPositiveOrValueError ==
    ret.op = "validate_max_depth" =>
        /\ ~ret.raised => ret.value > 0 /\ Denoted(ret.arg) = {ret.value}
        /\ ret.raised => ret.error.type = "ValueError"
        /\ ret.raised <=> ~ \E n \in Denoted(ret.arg) : n > 0

C13_Witness ==
    /\ ret.op = "validate_max_depth"
    /\ ret.arg = <<"+", "1", "2">>
    /\ ~ret.raised
    /\ ret.value = 12

(***************************************************************************)
(* C14  Statistics of a truncated graph.                                   *)
(***************************************************************************)
\* C14: get_statistics gives a Statistics value, and raises nothing, for
\* every graph build_dependency_graph gives back, the graphs whose branches
\* the depth limit cut included (max_depth >= 1, as the command line
\* accepts it).
C14_StatisticsNeverRaise ==
    (IsStatistics /\ ret.built.max_depth >= 1 /\ ~ret.built.load.raised) =>
        /\ ~ret.raised
        /\ DOMAIN ret.value = {"total_packages", "root_package",
                               "max_depth_reached", "errors_count",
                               "cycles_count", "filtered_count"}

(***************************************************************************)
(* Builds whose max_depth is larger than any index has names               *)
(***************************************************************************)
LargeDepths == {MaxDepthArg + 3, MaxDepthArg + 8}

BuildDeep ==
    /\ ret.op \in {"__init__", "get_package_info"}
    /\ \E package_name \in PackageNames, version \in Versions,
       max_depth \in LargeDepths, filter_substring \in Filters,
       resp \in ResponsesFor(package_cache) :
        LET r == build_dependency_graph(package_cache, package_name, version,
                                        max_depth, filter_substring, resp, served)
        IN  /\ package_cache' = r.load.cache
            /\ populated' = (populated \/ r.load.parses > 0)
            /\ ret' = [op |-> "build_dependency_graph",
                       package_name |-> package_name, max_depth |-> max_depth,
                       filter_substring |-> filter_substring,
                       raised |-> r.raised, graph |-> r.graph,
                       load |-> LoadReport(r.load)]
            /\ UNCHANGED served

NextDeep ==
    \/ GetPackageInfo
    \/ BuildDeep

SpecDeep == Init /\ [][NextDeep]_vars

(***************************************************************************)
(* C15  The traversal ends.                                                *)
(***************************************************************************)
Expanded(n) == Has(n.node, "package")

\* C15: whatever the index (cycles and self-dependencies included) and
\* however large max_depth, the build ends: on every path from the root the
\* names of the expanded nodes are pairwise distinct, so a path holds no
\* more expanded nodes than the index has names; with max_depth at least the
\* number of names no branch is cut by the depth limit, and a larger
\* max_depth gives the same graph.
C15_PathsHoldDistinctNames ==
    IsBuild =>
        /\ \A n \in GraphNodes(ret.graph) :
               Expanded(n) =>
                   /\ ~InList(n.name, n.ancestors)
                   /\ \A i, j \in 1..Len(n.ancestors) :
                          n.ancestors[i] = n.ancestors[j] => i = j
                   /\ Len(n.ancestors) + 1 <= Cardinality(KnownNames)
        /\ (~ret.load.raised /\ ret.max_depth >= Cardinality(KnownNames)) =>
               /\ ~HasEmptyNode(ret.graph)
               /\ ret.graph.dependencies =
                      _dfs_build_graph(package_cache, ret.package_name, EmptyStr,
                                       ret.max_depth + 1, 0,
                                       ret.filter_substring, << >>)

\* A build far deeper than the index is large, over an index where the root
\* depends on itself and a dependency leads back to the root
C15_Witness ==
    /\ IsBuild
    /\ ret.max_depth = MaxDepthArg + 8
    /\ ret.max_depth > Cardinality(KnownNames)
    /\ ret.filter_substring = << >>
    /\ ret.package_name = a
    /\ Has(ret.graph.dependencies, "dependencies")
    /\ a \in DOMAIN ret.graph.dependencies["dependencies"].rec
    /\ Has(ret.graph.dependencies["dependencies"].rec[a], "cycle")
    /\ \E n \in GraphNodes(ret.graph) :
           /\ Expanded(n)
           /\ Len(n.ancestors) = 1
           /\ a \in DOMAIN n.node["dependencies"].rec
           /\ Has(n.node["dependencies"].rec[a], "cycle")

====
